---- MODULE Spec2Model ----
(***************************************************************************)
(* A model of NetworkSimulator (tech295.py): the fixed 7-node topology,    *)
(* the latency and OSPF-cost tables, the background updater coroutine      *)
(* (update_latencies), the path resolver (get_ospf_path) and the probe     *)
(* coroutines (ping, traceroute), scheduled by one asyncio event loop.     *)
(*                                                                         *)
(* Numbers.  Latencies are Python floats (milliseconds).  They are kept    *)
(* here as decimal fixed-point integers with Scale units per millisecond,  *)
(* and every float operation of the code (product, quotient, sum) is one   *)
(* fixed-point operation rounded to the nearest unit, as every float       *)
(* operation is rounded to the nearest double.  int() truncates.           *)
(*                                                                         *)
(* Scheduling.  asyncio runs one coroutine at a time and switches only at  *)
(* an await.  Each coroutine has a program counter named after the source  *)
(* line it stands at; a coroutine takes a step only while every other      *)
(* coroutine is suspended at an await (or has not started, or is done).    *)
(***************************************************************************)
EXTENDS Integers, Sequences, FiniteSets, TLC

(***************************************************************************)
(* Bounds of the model.                                                    *)
(***************************************************************************)
\* Passes of the updater's while loop that the model follows.
MaxPasses == 2
\* Largest explicit count argument of ping.
MaxCount == 1
\* Passes followed by the long-run specification SpecDrift.
MaxDriftPasses == 32
\* Values drawn for random.uniform(0.9, 1.1) (line 77), in 1/Scale: both
\* ends of the range on the edges between routers (which decide the
\* routes), the upper end on the edges to N1, N2 and N3.
Factors == {900, 1100}
AccessFactors == {1100}
\* The value drawn for random.uniform(0.9, 1.1) in SpecDrift and SpecLive,
\* and on every edge but one in SpecPing.
DriftFactors == {1100}
\* Values drawn for random.uniform(-2, 2) (line 121), in 1/Scale ms.
Jitters == {-2000, 2000}
\* A name that is no node of the topology.
UnknownNodes == {"R5"}
\* The sources and destinations the probes (ping, traceroute) are called
\* with.
ProbeSources == {"R1", "R5"}
ProbeTargets == {"R1", "N3", "R5"}

(***************************************************************************)
(* Numbers.                                                                *)
(***************************************************************************)
\* Fixed-point units per millisecond.
Scale == 1000

\* count's default value in ping's signature.
DefaultCount == 4

\* a / b rounded to the nearest unit (a >= 0, b > 0).
RoundDiv(a, b) == (a + (b \div 2)) \div b

\* The bug "int(100 / latency / 10)": the parentheses lost.
OspfCostNoParens(latency) ==
    RoundDiv(RoundDiv(100 * Scale * Scale, latency), 10) \div Scale

\* int(100 / (latency / 10)): two float divisions, then truncation.
OspfCost(latency) ==
    RoundDiv(100 * Scale * Scale, RoundDiv(latency, 10)) \div Scale

\* The bug uniform(0.8, 1.2): the factor twice as far from 1.
PerturbWide(current_latency, factor) ==
    RoundDiv(current_latency * (2 * factor - Scale), Scale)

\* current_latency * random.uniform(0.9, 1.1), factor given in 1/Scale.
Perturb(current_latency, factor) == RoundDiv(current_latency * factor, Scale)

\* The bug "rtts.append(rtt)": the floor at 0 lost.
ClampRttNoFloor(rtt) == rtt

\* max(0, rtt)
ClampRtt(rtt) == IF rtt < 0 THEN 0 ELSE rtt

(***************************************************************************)
(* The topology (_initialize_network).                                     *)
(***************************************************************************)
\* node_positions, in insertion order.
NodeOrder == <<"R1", "R2", "R3", "R4", "N1", "N2", "N3">>

\* self.nodes (and the nodes of self.graph).
Nodes == {NodeOrder[i] : i \in DOMAIN NodeOrder}

connections ==
    << <<"R1", "R2">>, <<"R2", "R3">>, <<"R3", "R4">>, <<"R4", "R1">>,
       <<"R1", "N1">>, <<"R2", "N2">>, <<"R3", "N3">> >>

\* The bug "(edge[0], edge[1])" for the mirrored key.
ReverseSame(edge) == edge

\* (edge[1], edge[0])
Reverse(edge) == <<edge[2], edge[1]>>

\* The keys of self.latencies and self.ospf_costs: both orientations.
DirEdges ==
    {connections[i] : i \in DOMAIN connections}
        \cup {<<connections[i][2], connections[i][1]>> : i \in DOMAIN connections}

IndexOf(n) == CHOOSE i \in DOMAIN NodeOrder : NodeOrder[i] = n

SeqToSet(s) == {s[i] : i \in DOMAIN s}

\* The neighbours of n in self.graph, in the order add_edge inserted them.
RECURSIVE AdjFrom(_, _)
AdjFrom(n, i) ==
    IF i > Len(connections) THEN <<>>
    ELSE (IF connections[i][1] = n THEN <<connections[i][2]>>
          ELSE IF connections[i][2] = n THEN <<connections[i][1]>>
          ELSE <<>>) \o AdjFrom(n, i + 1)

Adj(n) == AdjFrom(n, 1)

\* self.graph.edges(): every node in insertion order, each of its
\* neighbours not yet visited as a node, the edge oriented (node, neighbour).
RECURSIVE EdgesFrom(_)
EdgesFrom(i) ==
    IF i > Len(NodeOrder) THEN <<>>
    ELSE LET n == NodeOrder[i]
             Later(x) == IndexOf(x) > i
             nbrs == SelectSeq(Adj(n), Later)
         IN  [j \in 1..Len(nbrs) |-> <<n, nbrs[j]>>] \o EdgesFrom(i + 1)

GraphEdges == EdgesFrom(1)

(***************************************************************************)
(* The path resolver (get_ospf_path).  nx.shortest_path with a weight is   *)
(* Dijkstra's algorithm on ospf_graph, whose edge {u, v} carries the cost  *)
(* stored under the orientation graph.edges() yields.                      *)
(***************************************************************************)
\* The bug "nx.shortest_path(ospf_graph, source, destination)": the weight
\* argument lost, so that every edge weighs 1.
EdgeWeightUnweighted(costs, u, v) == 1

\* The weight of ospf_graph's edge {u, v}: weight=self.ospf_costs[edge].
EdgeWeight(costs, u, v) ==
    IF \E i \in DOMAIN GraphEdges : GraphEdges[i] = <<u, v>>
    THEN costs[<<u, v>>]
    ELSE costs[<<v, u>>]

\* Dijkstra's main loop: dist and pred are functions on the nodes seen so
\* far, final the nodes whose distance is settled.  The nearest unsettled
\* node is settled next (the earliest in node order among equals), and a
\* neighbour is updated only by a strictly shorter distance.
RECURSIVE DijkstraLoop(_, _, _, _)
DijkstraLoop(costs, dist, pred, final) ==
    LET fringe == (DOMAIN dist) \ final
    IN  IF fringe = {} THEN [dist |-> dist, pred |-> pred]
        ELSE LET u == CHOOSE n \in fringe : \A m \in fringe :
                          \/ dist[n] < dist[m]
                          \/ dist[n] = dist[m] /\ IndexOf(n) <= IndexOf(m)
                 through(v) == dist[u] + EdgeWeight(costs, u, v)
                 better == {v \in SeqToSet(Adj(u)) \ final :
                               \/ v \notin DOMAIN dist
                               \/ through(v) < dist[v]}
                 dist2 == [v \in (DOMAIN dist) \cup better |->
                              IF v \in better THEN through(v) ELSE dist[v]]
                 pred2 == [v \in (DOMAIN pred) \cup better |->
                              IF v \in better THEN u ELSE pred[v]]
             IN  DijkstraLoop(costs, dist2, pred2, final \cup {u})

\* The bug of a path collected from the destination back to the source and
\* never reversed.
RECURSIVE PathToBackwards(_, _, _)
PathToBackwards(pred, s, v) ==
    IF v = s THEN <<s>> ELSE <<v>> \o PathToBackwards(pred, s, pred[v])

\* The path from s to v along the predecessors.
RECURSIVE PathTo(_, _, _)
PathTo(pred, s, v) ==
    IF v = s THEN <<s>> ELSE Append(PathTo(pred, s, pred[v]), v)

\* The bug "return path[1:]": the source dropped from the path.
get_ospf_path_tail(costs, s, d) ==
    IF s \notin Nodes \/ d \notin Nodes
    THEN [status |-> "NodeNotFound", path |-> <<>>]
    ELSE LET r == DijkstraLoop(costs, s :> 0, [x \in {} |-> x], {})
         IN  IF d \in DOMAIN r.dist
             THEN [status |-> "ok", path |-> Tail(PathTo(r.pred, s, d))]
             ELSE [status |-> "NoPath", path |-> <<>>]

\* get_ospf_path(source, destination) on the cost table `costs`: the path,
\* or the exception it ends with.  nx.shortest_path raises NodeNotFound
\* for a node that is not in the graph (not caught at line 97) and
\* NetworkXNoPath for an unreachable one (re-raised as ValueError at line
\* 98); it returns [source] when source == destination.
get_ospf_path(costs, s, d) ==
    IF s \notin Nodes \/ d \notin Nodes
    THEN [status |-> "NodeNotFound", path |-> <<>>]
    ELSE IF s = d THEN [status |-> "ok", path |-> <<s>>]
    ELSE LET r == DijkstraLoop(costs, s :> 0, [x \in {} |-> x], {})
         IN  IF d \in DOMAIN r.dist
             THEN [status |-> "ok", path |-> PathTo(r.pred, s, d)]
             ELSE [status |-> "NoPath", path |-> <<>>]

\* sum(self.latencies[(path[i], path[i+1])] for i in range(len(path)-1))
RECURSIVE total_latency(_, _, _)
total_latency(lat, p, i) ==
    IF i >= Len(p) THEN 0
    ELSE lat[<<p[i], p[i + 1]>>] + total_latency(lat, p, i + 1)

\* An entry of rtts: None, or a number of 1/Scale ms.
None == [present |-> FALSE, ms |-> 0]
Sample(rtt) == [present |-> TRUE, ms |-> rtt]

\* The bug "current = path[i+1]": the hop named after the next node.
HopNodeNext(p, i) == p[i + 2]

\* current = path[i], for Python's i counted from 0.
HopNode(p, i) == p[i + 1]

(***************************************************************************)
(* The state.                                                              *)
(***************************************************************************)
VARIABLES
    latencies,      \* self.latencies
    ospf_costs,     \* self.ospf_costs
    running,        \* self._running
    upc,            \* update_latencies: where the coroutine stands
    eidx,           \* update_latencies: index in graph.edges() of `edge`
    new_latency,    \* update_latencies: local new_latency
    cost,           \* update_latencies: local cost
    passes,         \* completed passes of the while loop
    latVer,         \* per key: the pass whose write stored the latency
    costVer,        \* per key: the pass whose write stored the cost
    cpc,            \* the caller / query coroutine: where it stands
    op,             \* the query in progress
    source,
    destination,
    count,
    count_given,    \* whether ping was called with a count argument
    k,              \* ping: iterations of the for loop begun; traceroute: i
    path,
    rtts,
    hops,
    status          \* how the query ended

tableVars == <<latencies, ospf_costs, latVer, costVer>>
updVars == <<upc, eidx, new_latency, cost, passes>>
queryVars ==
    <<op, source, destination, count, count_given, k, path, rtts, hops, status>>
vars == <<tableVars, running, updVars, cpc, queryVars>>

(***************************************************************************)
(* Construction (__init__, _initialize_network).                           *)
(***************************************************************************)
\* Tables of the latencies random.uniform(10, 50) draws at line 63, one
\* per entry of connections: 20 ms on the four edges between routers (so
\* that routes tie until a pass separates them), and 47.62 ms, 10 ms and
\* 50 ms on the edges to N1, N2 and N3.
InitTables ==
    { <<20000, 20000, 20000, 20000, 47620, 10000, 50000>> }

\* The table drawn in SpecDrift: 50 ms everywhere.
DriftTables == { <<50000, 50000, 50000, 50000, 50000, 50000, 50000>> }

\* The index in connections of the edge stored under key e.
ConnIndex(e) ==
    CHOOSE i \in DOMAIN connections :
        connections[i] = e \/ connections[i] = <<e[2], e[1]>>

\* is_router (line 48)
IsRouter(n) == n \in {"R1", "R2", "R3", "R4"}

\* The factors drawn per edge.
FactorChoices ==
    [e \in DirEdges |->
        IF IsRouter(e[1]) /\ IsRouter(e[2]) THEN Factors ELSE AccessFactors]

DriftChoices == [e \in DirEdges |-> DriftFactors]

\* The factors drawn per edge beside a ping: both on the edge between R1
\* and R2, which decides the route from R1 to R3, and one elsewhere.
PingChoices ==
    [e \in DirEdges |->
        IF e \in {<<"R1", "R2">>, <<"R2", "R1">>} THEN Factors ELSE DriftFactors]

QueryIdle ==
    /\ op = "none"
    /\ source = ""
    /\ destination = ""
    /\ count = 0
    /\ count_given = FALSE
    /\ k = 0
    /\ path = <<>>
    /\ rtts = <<>>
    /\ hops = <<>>
    /\ status = "none"

\* The bug of a construction that stores each connection under the key it
\* is listed with and not under the mirrored one.
InitOneWay(drawn) ==
    /\ latencies = [e \in SeqToSet(connections) |-> drawn[ConnIndex(e)]]
    /\ ospf_costs = [e \in SeqToSet(connections) |-> OspfCost(drawn[ConnIndex(e)])]
    /\ latVer = [e \in SeqToSet(connections) |-> 0]
    /\ costVer = [e \in SeqToSet(connections) |-> 0]
    /\ running = TRUE
    /\ upc = "created"
    /\ eidx = 0
    /\ new_latency = 0
    /\ cost = 0
    /\ passes = 0
    /\ cpc = "idle"
    /\ QueryIdle

\* The state __init__ leaves, with the updater task created (main, line
\* 225) and no query begun, for the latencies `drawn`.
InitWith(drawn) ==
    /\ latencies = [e \in DirEdges |-> drawn[ConnIndex(e)]]
    /\ ospf_costs = [e \in DirEdges |-> OspfCost(drawn[ConnIndex(e)])]
    /\ latVer = [e \in DirEdges |-> 0]
    /\ costVer = [e \in DirEdges |-> 0]
    /\ running = TRUE
    /\ upc = "created"
    /\ eidx = 0
    /\ new_latency = 0
    /\ cost = 0
    /\ passes = 0
    /\ cpc = "idle"
    /\ QueryIdle

Init == \E drawn \in InitTables : InitWith(drawn)

InitDrift == \E drawn \in DriftTables : InitWith(drawn)

(***************************************************************************)
(* The event loop: who may run.                                            *)
(***************************************************************************)
\* The bug "await asyncio.sleep(0)" between the latency writes and the
\* cost writes of an edge.
UpdaterAwaitsMidEdge == upc \in {"created", "L84", "done", "L81"}

\* The bug "time.sleep(5)": a sleep that does not give up the event loop.
UpdaterAwaitsNotSleeping == upc \in {"created", "done"}

\* The bug of the sleep indented into the for loop: an await between the
\* edges of a pass.
UpdaterAwaitsBetweenEdges == upc \in {"created", "L84", "done", "L76"}

\* update_latencies is not running: not started, at its only await (line
\* 84), or returned.
UpdaterAwaits == upc \in {"created", "L84", "done"}

\* The caller is not running: between calls, or inside ping or traceroute
\* at their await (lines 125 and 151).
QueryAwaits == cpc \in {"idle", "L125", "L151"}

(***************************************************************************)
(* update_latencies.                                                       *)
(***************************************************************************)
\* d[key] = value on a dict: the key is added when it is not there.
Store(d, key, value) ==
    [x \in DOMAIN d \cup {key} |-> IF x = key THEN value ELSE d[x]]

\* The bug of a flag that is only looked at after the first pass.
LoopConditionAfterFirst(r) == r \/ upc = "created"

\* The bug "while True".
LoopConditionTrue(r) == TRUE

\* while self._running
LoopCondition(r) == r

\* Line 73, on the first run and after each sleep: enter the for loop at
\* its first edge, or return.
UpdLoopCheck(maxPasses) ==
    /\ upc \in {"created", "L84"}
    /\ QueryAwaits
    /\ IF LoopCondition(running)
       THEN /\ passes < maxPasses
            /\ upc' = "L76"
            /\ eidx' = 1
       ELSE /\ upc' = "done"
            /\ eidx' = 0
    /\ UNCHANGED <<tableVars, running, new_latency, cost, passes, cpc, queryVars>>

\* Lines 76-78: draw the new latency and store it under edge.
UpdWriteLatency(factors) ==
    /\ upc = "L76"
    /\ QueryAwaits
    /\ \E f \in factors[GraphEdges[eidx]] :
         LET edge == GraphEdges[eidx]
             nl == Perturb(latencies[edge], f)
         IN  /\ new_latency' = nl
             /\ latencies' = Store(latencies, edge, nl)
             /\ latVer' = Store(latVer, edge, passes + 1)
    /\ upc' = "L79"
    /\ UNCHANGED <<ospf_costs, costVer, running, eidx, cost, passes, cpc, queryVars>>

\* Line 79: store it under the mirrored key.
UpdWriteLatencyRev ==
    /\ upc = "L79"
    /\ QueryAwaits
    /\ latencies' = Store(latencies, Reverse(GraphEdges[eidx]), new_latency)
    /\ latVer' = Store(latVer, Reverse(GraphEdges[eidx]), passes + 1)
    /\ upc' = "L81"
    /\ UNCHANGED <<ospf_costs, costVer, running, eidx, new_latency, cost, passes,
                   cpc, queryVars>>

\* Lines 81-82: derive the cost and store it under edge.
UpdWriteCost ==
    /\ upc = "L81"
    /\ QueryAwaits
    /\ cost' = OspfCost(new_latency)
    /\ ospf_costs' = Store(ospf_costs, GraphEdges[eidx], OspfCost(new_latency))
    /\ costVer' = Store(costVer, GraphEdges[eidx], passes + 1)
    /\ upc' = "L83"
    /\ UNCHANGED <<latencies, latVer, running, eidx, new_latency, passes, cpc,
                   queryVars>>

\* Line 83: store it under the mirrored key; then the next edge, or after
\* the last one the sleep of line 84.
UpdWriteCostRev ==
    /\ upc = "L83"
    /\ QueryAwaits
    /\ ospf_costs' = Store(ospf_costs, Reverse(GraphEdges[eidx]), cost)
    /\ costVer' = Store(costVer, Reverse(GraphEdges[eidx]), passes + 1)
    /\ IF eidx < Len(GraphEdges)
       THEN /\ eidx' = eidx + 1
            /\ upc' = "L76"
            /\ passes' = passes
       ELSE /\ eidx' = 0
            /\ upc' = "L84"
            /\ passes' = passes + 1
    /\ new_latency' = 0      \* the locals are dead until assigned again
    /\ cost' = 0
    /\ UNCHANGED <<latencies, latVer, running, cpc, queryVars>>

\* stop(), called by the caller while it runs or by another task while
\* the caller is suspended.
Stop ==
    /\ UpdaterAwaits
    /\ QueryAwaits \/ cpc = "ret"
    /\ running' = FALSE
    /\ UNCHANGED <<tableVars, updVars, cpc, queryVars>>

(***************************************************************************)
(* The queries.  A call runs up to its first await or its return in one    *)
(* step; what it returned (or raised) stands in the query variables while  *)
(* the caller holds it (cpc = "ret") and is dropped by Ack.                *)
(***************************************************************************)
\* The bug of a membership check that lets every name through.
KnownAlways(n) == TRUE

\* n in self.nodes
Known(n) == n \in Nodes

\* The names get_ospf_path is called with.
Names == Nodes \cup UnknownNodes

\* The count arguments of a ping: <<count, whether it was given>>.
ExplicitCounts == {<<c, TRUE>> : c \in 0..MaxCount}

\* As ExplicitCounts, and the call without a count (count = 4).
CountArgs == ExplicitCounts \cup {<<DefaultCount, FALSE>>}

Begin(o, s, d, c, given) ==
    /\ op' = o
    /\ source' = s
    /\ destination' = d
    /\ count' = c
    /\ count_given' = given
    /\ k' = 0
    /\ rtts' = <<>>
    /\ hops' = <<>>

\* A direct call of get_ospf_path (it has no await).
Resolve ==
    /\ cpc = "idle"
    /\ UpdaterAwaits
    /\ \E s \in Names, d \in Names :
         LET r == get_ospf_path(ospf_costs, s, d)
         IN  /\ Begin("get_ospf_path", s, d, 0, FALSE)
             /\ path' = r.path
             /\ status' = r.status
    /\ cpc' = "ret"
    /\ UNCHANGED <<tableVars, running, updVars>>

\* ping, lines 102-106: the membership check and the one path resolution.
PingCall(countArgs) ==
    /\ cpc = "idle"
    /\ UpdaterAwaits
    /\ \E s \in ProbeSources, d \in ProbeTargets, c \in countArgs :
         /\ Begin("ping", s, d, c[1], c[2])
         /\ IF ~Known(s) \/ ~Known(d)
            THEN /\ status' = "SourceOrDestinationNotFound"
                 /\ path' = <<>>
                 /\ cpc' = "ret"
            ELSE LET r == get_ospf_path(ospf_costs, s, d)
                 IN  /\ path' = r.path
                     /\ IF r.status = "ok"
                        THEN /\ status' = "none"
                             /\ cpc' = "L108"
                        ELSE /\ status' = r.status
                             /\ cpc' = "ret"
    /\ UNCHANGED <<tableVars, running, updVars>>

\* The bug of a lost echo that marks the first link of the path as down
\* in the tables.
PingEchoLostMarksDown ==
    /\ cpc = "L108"
    /\ UpdaterAwaits
    /\ k < count
    /\ k' = k + 1
    /\ rtts' = Append(rtts, None)
    /\ IF Len(path) >= 2
       THEN /\ latencies' = [latencies EXCEPT ![<<path[1], path[2]>>] = 0]
            /\ ospf_costs' = [ospf_costs EXCEPT ![<<path[1], path[2]>>] = 0]
       ELSE UNCHANGED <<latencies, ospf_costs>>
    /\ UNCHANGED <<latVer, costVer, running, updVars, cpc, op, source,
                   destination, count, count_given, path, hops, status>>

\* Lines 108-112 and 127-129: an echo that is lost; no await follows.
PingEchoLost ==
    /\ cpc = "L108"
    /\ UpdaterAwaits
    /\ k < count
    /\ k' = k + 1
    /\ rtts' = Append(rtts, None)
    /\ UNCHANGED <<tableVars, running, updVars, cpc, op, source, destination,
                   count, count_given, path, hops, status>>

\* Lines 108-125: an echo that is answered, up to its sleep.
PingEchoAnswered ==
    /\ cpc = "L108"
    /\ UpdaterAwaits
    /\ k < count
    /\ k' = k + 1
    /\ \E jitter \in Jitters :
         rtts' = Append(rtts,
                    Sample(ClampRtt(total_latency(latencies, path, 1) + jitter)))
    /\ cpc' = "L125"
    /\ UNCHANGED <<tableVars, running, updVars, op, source, destination, count,
                   count_given, path, hops, status>>

\* The bug of a ping that resolves the path again before each echo.
PingResumeResolves ==
    /\ cpc = "L125"
    /\ UpdaterAwaits
    /\ cpc' = "L108"
    /\ path' = get_ospf_path(ospf_costs, source, destination).path
    /\ UNCHANGED <<tableVars, running, updVars, op, source, destination, count,
                   count_given, k, rtts, hops, status>>

\* Line 125: the sleep is over.
PingResume ==
    /\ cpc = "L125"
    /\ UpdaterAwaits
    /\ cpc' = "L108"
    /\ UNCHANGED <<tableVars, running, updVars, queryVars>>

\* Line 134: the for loop is exhausted.
PingReturn ==
    /\ cpc = "L108"
    /\ UpdaterAwaits
    /\ k >= count
    /\ status' = "ok"
    /\ cpc' = "ret"
    /\ UNCHANGED <<tableVars, running, updVars, op, source, destination, count,
                   count_given, k, path, rtts, hops>>

\* traceroute, lines 138-143; a failed resolution is caught at line 157
\* and answered with ([], []).
TracerouteCall ==
    /\ cpc = "idle"
    /\ UpdaterAwaits
    /\ \E s \in ProbeSources, d \in ProbeTargets :
         /\ Begin("traceroute", s, d, 0, FALSE)
         /\ IF ~Known(s) \/ ~Known(d)
            THEN /\ status' = "SourceOrDestinationNotFound"
                 /\ path' = <<>>
                 /\ cpc' = "ret"
            ELSE LET r == get_ospf_path(ospf_costs, s, d)
                 IN  IF r.status = "ok"
                     THEN /\ path' = r.path
                          /\ status' = "none"
                          /\ cpc' = "L145"
                     ELSE /\ path' = <<>>
                          /\ status' = "empty"
                          /\ cpc' = "ret"
    /\ UNCHANGED <<tableVars, running, updVars>>

\* Lines 145-151: one hop, up to its sleep.
TracerouteHop ==
    /\ cpc = "L145"
    /\ UpdaterAwaits
    /\ k < Len(path) - 1
    /\ hops' = Append(hops,
                  <<HopNode(path, k), latencies[<<path[k + 1], path[k + 2]>>]>>)
    /\ cpc' = "L151"
    /\ UNCHANGED <<tableVars, running, updVars, op, source, destination, count,
                   count_given, k, path, rtts, status>>

\* Line 151: the sleep is over; the next i.
TracerouteResume ==
    /\ cpc = "L151"
    /\ UpdaterAwaits
    /\ k' = k + 1
    /\ cpc' = "L145"
    /\ UNCHANGED <<tableVars, running, updVars, op, source, destination, count,
                   count_given, path, rtts, hops, status>>

\* Lines 154-155: the final hop and the return.
TracerouteReturn ==
    /\ cpc = "L145"
    /\ UpdaterAwaits
    /\ k >= Len(path) - 1
    /\ hops' = Append(hops, <<destination, 0>>)
    /\ status' = "ok"
    /\ cpc' = "ret"
    /\ UNCHANGED <<tableVars, running, updVars, op, source, destination, count,
                   count_given, k, path, rtts>>

\* The caller is done with the result.
Ack ==
    /\ cpc = "ret"
    /\ cpc' = "idle"
    /\ op' = "none"
    /\ source' = ""
    /\ destination' = ""
    /\ count' = 0
    /\ count_given' = FALSE
    /\ k' = 0
    /\ path' = <<>>
    /\ rtts' = <<>>
    /\ hops' = <<>>
    /\ status' = "none"
    /\ UNCHANGED <<tableVars, running, updVars>>

(***************************************************************************)
(* The specifications.                                                     *)
(***************************************************************************)
QueryStep ==
    \/ Resolve
    \/ PingCall(ExplicitCounts)
    \/ PingEchoLost
    \/ PingEchoAnswered
    \/ PingResume
    \/ PingReturn
    \/ TracerouteCall
    \/ TracerouteHop
    \/ TracerouteResume
    \/ TracerouteReturn

Next ==
    \/ UpdLoopCheck(MaxPasses)
    \/ UpdWriteLatency(FactorChoices)
    \/ UpdWriteLatencyRev
    \/ UpdWriteCost
    \/ UpdWriteCostRev
    \/ Stop
    \/ QueryStep
    \/ Ack

Spec == Init /\ [][Next]_vars

\* The updater alone over many passes, each drawing the largest factor.
NextDrift ==
    \/ UpdLoopCheck(MaxDriftPasses)
    \/ UpdWriteLatency(DriftChoices)
    \/ UpdWriteLatencyRev
    \/ UpdWriteCost
    \/ UpdWriteCostRev
    \/ Stop

SpecDrift == InitDrift /\ [][NextDrift]_vars

\* ping, with and without a count, beside an updater that draws one factor
\* on every edge but one.
NextPing ==
    \/ UpdLoopCheck(MaxPasses)
    \/ UpdWriteLatency(PingChoices)
    \/ UpdWriteLatencyRev
    \/ UpdWriteCost
    \/ UpdWriteCostRev
    \/ Stop
    \/ PingCall(CountArgs)
    \/ PingEchoLost
    \/ PingEchoAnswered
    \/ PingResume
    \/ PingReturn
    \/ Ack

SpecPing == Init /\ [][NextPing]_vars

\* ping (with and without a count) and traceroute beside an updater that
\* draws one factor, under the scheduling of the event loop: a coroutine
\* that runs goes on to its next await or its return (weak fairness), and
\* a coroutine whose sleep is over is run when the others give up the
\* loop, however often they take it again in between (strong fairness).
UpdaterRuns ==
    \/ UpdWriteLatency(DriftChoices)
    \/ UpdWriteLatencyRev
    \/ UpdWriteCost
    \/ UpdWriteCostRev

QueryRuns ==
    \/ PingEchoLost
    \/ PingEchoAnswered
    \/ PingReturn
    \/ TracerouteHop
    \/ TracerouteReturn

QueryResumes ==
    \/ PingResume
    \/ TracerouteResume

NextLive ==
    \/ UpdLoopCheck(MaxPasses)
    \/ UpdaterRuns
    \/ Stop
    \/ PingCall(CountArgs)
    \/ TracerouteCall
    \/ QueryRuns
    \/ QueryResumes
    \/ Ack

SpecLive ==
    /\ Init
    /\ [][NextLive]_vars
    /\ SF_vars(UpdLoopCheck(MaxPasses))
    /\ WF_vars(UpdaterRuns)
    /\ WF_vars(QueryRuns)
    /\ SF_vars(QueryResumes)
    /\ WF_vars(Ack)

(***************************************************************************)
(* The claims.                                                             *)
(***************************************************************************)
\* The simple paths from u to d that avoid the nodes of `visited`.
RECURSIVE SimplePathsFrom(_, _, _)
SimplePathsFrom(u, d, visited) ==
    IF u = d THEN {<<d>>}
    ELSE UNION { { <<u>> \o p : p \in SimplePathsFrom(v, d, visited \cup {v}) } :
                 v \in SeqToSet(Adj(u)) \ visited }

SimplePaths(s, d) == SimplePathsFrom(s, d, {s})

\* The total cost of path p over the cost table.
RECURSIVE PathCost(_, _)
PathCost(p, i) ==
    IF i >= Len(p) THEN 0
    ELSE ospf_costs[<<p[i], p[i + 1]>>] + PathCost(p, i + 1)

\* A state a query can observe: the updater is not in the middle of a run.
Observable == upc \in {"created", "L84", "done"}

Mirror(e) == <<e[2], e[1]>>

\* floor(1000 / latency)
FloorCost(latency) == (1000 * Scale) \div latency

C2_Symmetric ==
    Observable =>
        \A e \in DirEdges :
            /\ latencies[e] = latencies[Mirror(e)]
            /\ ospf_costs[e] = ospf_costs[Mirror(e)]

\* C2's case: after a pass, the key (R4, R1), which the updater writes as
\* the mirror of graph.edges()'s (R1, R4), holds the perturbed values.
C2_Witness ==
    /\ Observable
    /\ passes >= 1
    /\ latVer[<<"R4", "R1">>] >= 1
    /\ latencies[<<"R4", "R1">>] = 22 * Scale
    /\ ospf_costs[<<"R4", "R1">>] = 45

\* The four entries of edge e were stored by the same perturbation.
Untorn(e) ==
    /\ latVer[e] = costVer[e]
    /\ latVer[Mirror(e)] = latVer[e]
    /\ costVer[Mirror(e)] = latVer[e]

\* C3: no step of resolve, ping or traceroute is taken from a state in
\* which some edge holds a latency stored by one perturbation and a cost
\* stored by another.
C3_NoTornRead ==
    [][QueryStep => \A e \in DirEdges : Untorn(e)]_vars

\* C3's case: a traceroute that slept through a pass is about to go on: its
\* first hop was read before the pass, its second hop after it.
C3_Witness ==
    /\ op = "traceroute"
    /\ cpc = "L151"
    /\ Len(hops) = 2
    /\ passes >= 1
    /\ latVer[<<path[2], path[3]>>] >= 1
    /\ hops[1][2] # latencies[<<path[1], path[2]>>]
    /\ hops[2][2] = latencies[<<path[2], path[3]>>]

\* C4: the path get_ospf_path returns for known nodes is a simple path from
\* source to destination whose total cost, over the cost table at the
\* call, is at most that of every simple path from source to destination.
C4_ShortestPath ==
    (cpc = "ret" /\ op = "get_ospf_path"
        /\ source \in Nodes /\ destination \in Nodes) =>
        /\ status = "ok"
        /\ path \in SimplePaths(source, destination)
        /\ \A p \in SimplePaths(source, destination) :
               PathCost(path, 1) <= PathCost(p, 1)

\* C4's case: after a pass, the resolver takes the route R1-R4-R3-N3, which
\* is then strictly cheaper than R1-R2-R3-N3.
C4_Witness ==
    /\ cpc = "ret"
    /\ op = "get_ospf_path"
    /\ passes >= 1
    /\ path = <<"R1", "R4", "R3", "N3">>
    /\ PathCost(path, 1) < PathCost(<<"R1", "R2", "R3", "N3">>, 1)

\* C5: for known source and destination, ping returns exactly count
\* samples (4 when no count was given), each absent or a number >= 0.
C5_PingSamples ==
    (cpc = "ret" /\ op = "ping"
        /\ source \in Nodes /\ destination \in Nodes) =>
        /\ status = "ok"
        /\ Len(rtts) = count
        /\ ~count_given => Len(rtts) = 4
        /\ \A i \in DOMAIN rtts : rtts[i].present => rtts[i].ms >= 0

\* C5's case: a ping without a count returns 4 samples, the second lost,
\* the last taken after a pass that ran between the echoes.
C5_Witness ==
    /\ cpc = "ret"
    /\ op = "ping"
    /\ ~count_given
    /\ destination = "N3"
    /\ passes >= 1
    /\ Len(rtts) = 4
    /\ rtts[1].present
    /\ ~rtts[2].present
    /\ rtts[4].present
    /\ rtts[4].ms > rtts[1].ms + 4 * Scale

\* C6: for known source and destination, traceroute returns as many hops
\* as the path has nodes, the i-th hop at the i-th node of the path, the
\* last hop (destination, 0); for source = destination the one hop
\* (source, 0).
C6_TracerouteHops ==
    (cpc = "ret" /\ op = "traceroute"
        /\ source \in Nodes /\ destination \in Nodes) =>
        /\ status = "ok"
        /\ Len(hops) = Len(path)
        /\ \A i \in DOMAIN hops : hops[i][1] = path[i]
        /\ hops[Len(hops)] = <<destination, 0>>
        /\ source = destination => hops = << <<source, 0>> >>

\* C6's case: a traceroute from R1 to N3 has returned its four hops.
C6_Witness ==
    /\ cpc = "ret"
    /\ op = "traceroute"
    /\ source = "R1"
    /\ destination = "N3"
    /\ Len(hops) = 4

\* C7: a query with a source or a destination that is no node ends with
\* the unknown-node error, returns no path, samples or hops, and the step
\* that makes the call changes no latency and no cost.
C7_UnknownNode ==
    /\ []((cpc = "ret" /\ (source \notin Nodes \/ destination \notin Nodes)) =>
            /\ status \in {"NodeNotFound", "SourceOrDestinationNotFound"}
            /\ path = <<>>
            /\ rtts = <<>>
            /\ hops = <<>>)
    /\ [][(cpc = "idle" /\ cpc' = "ret"
             /\ (source' \notin Nodes \/ destination' \notin Nodes)) =>
            (latencies' = latencies /\ ospf_costs' = ospf_costs)]_vars

\* C7's case: after a pass, a traceroute from the unknown node R5 has
\* failed.
C7_Witness ==
    /\ cpc = "ret"
    /\ op = "traceroute"
    /\ source = "R5"
    /\ destination = "N3"
    /\ passes >= 1
    /\ status = "SourceOrDestinationNotFound"

\* C8: once stop() has been called no pass is in flight, the flag stays
\* down, no pass begins and no latency or cost changes.
C8_StopEndsPasses ==
    /\ [](~running => upc \in {"created", "L84", "done"})
    /\ [][~running =>
            /\ running' = FALSE
            /\ upc' \in {upc, "done"}
            /\ latencies' = latencies
            /\ ospf_costs' = ospf_costs]_vars

\* C8's case: stop() was called after a pass, and the updater has returned.
C8_Witness ==
    /\ ~running
    /\ passes >= 1
    /\ upc = "done"

\* C9: get_ospf_path(X, X) returns [X] for every node X.
C9_ResolveSelf ==
    (cpc = "ret" /\ op = "get_ospf_path"
        /\ source \in Nodes /\ destination = source) =>
        /\ status = "ok"
        /\ path = <<source>>

\* C9's case: after a pass, get_ospf_path("N2", "N2") has returned.
C9_Witness ==
    /\ cpc = "ret"
    /\ op = "get_ospf_path"
    /\ source = "N2"
    /\ destination = "N2"
    /\ passes >= 1
    /\ path = <<"N2">>

\* C10, as claimed: in every state reached by construction and by any
\* number of whole passes, every edge's cost is an integer >= 1.
C10_CostsPositive ==
    Observable =>
        \A e \in DirEdges : ospf_costs[e] \in Nat /\ ospf_costs[e] >= 1

\* The updater is inside a pass.
InPass == upc \in {"L76", "L79", "L81", "L83"}

\* C11: a step of get_ospf_path, ping or traceroute (a call, an echo, a
\* hop, a resumption, a return, successful or failed) leaves every latency
\* and every cost as it was, and a step that changes a latency or a cost is
\* a step of the updater inside a pass that leaves the query alone.
C11_QueriesNeverWrite ==
    [][/\ (cpc' # cpc \/ queryVars' # queryVars) =>
            (latencies' = latencies /\ ospf_costs' = ospf_costs)
       /\ (latencies' # latencies \/ ospf_costs' # ospf_costs) =>
            (InPass /\ cpc' = cpc /\ queryVars' = queryVars)]_vars

\* C11's case: a ping from R1 to N3 has returned one lost echo after a
\* pass, and the tables hold what that pass stored.
C11_Witness ==
    /\ cpc = "ret"
    /\ op = "ping"
    /\ status = "ok"
    /\ source = "R1"
    /\ destination = "N3"
    /\ Len(rtts) = 1
    /\ ~rtts[1].present
    /\ passes >= 1
    /\ \A e \in DirEdges : latVer[e] = passes /\ costVer[e] = passes

\* The sum of the latencies lat over the first n links of path p.
RECURSIVE EdgeSum(_, _, _)
EdgeSum(lat, p, n) ==
    IF n = 0 THEN 0
    ELSE EdgeSum(lat, p, n - 1) + lat[<<p[n], p[n + 1]>>]

\* C13: ping resolves its path in the step of the call, as a cheapest
\* route over the costs of that moment; no later step of the ping changes
\* the path, whatever passes run meanwhile; and an answered echo appends
\* max(0, S + j) for a jitter j of at most 2 ms either way, S being the sum
\* over the path's links of the latencies stored when the echo is made.
C13_PingPathOnce ==
    [][/\ (cpc = "idle" /\ op' = "ping" /\ cpc' = "L108") =>
            /\ path' \in SimplePaths(source', destination')
            /\ \A q \in SimplePaths(source', destination') :
                   PathCost(path', 1) <= PathCost(q, 1)
       /\ (op = "ping" /\ op' = "ping") => path' = path
       /\ (op = "ping" /\ cpc = "L108" /\ cpc' = "L125") =>
            LET S == EdgeSum(latencies, path, Len(path) - 1)
                r == rtts'[Len(rtts')]
            IN  /\ rtts' = Append(rtts, r)
                /\ r.present
                /\ r.ms >= 0
                /\ r.ms > 0 => (r.ms - S) \in (0 - 2 * Scale)..(2 * Scale)
                /\ r.ms = 0 => S <= 2 * Scale]_vars

\* C13's case: a ping from R1 to N3 has returned two answered echoes with
\* a pass between them: the second sample is of the latencies after the
\* pass, and the path is the one resolved at the call although the route by
\* R4 is cheaper now.
C13_Witness ==
    /\ cpc = "ret"
    /\ op = "ping"
    /\ passes >= 1
    /\ path = <<"R1", "R2", "R3", "N3">>
    /\ PathCost(<<"R1", "R4", "R3", "N3">>, 1) < PathCost(path, 1)
    /\ Len(rtts) >= 2
    /\ rtts[1].present
    /\ rtts[2].present
    /\ rtts[2].ms > rtts[1].ms + 4 * Scale
    /\ rtts[2].ms - EdgeSum(latencies, path, 3) \in (0 - 2 * Scale)..(2 * Scale)

\* C14, as claimed: every iteration of ping's loop, whether its echo is
\* answered or lost, ends suspended in the processing delay of line 125.
C14_EveryEchoSleeps ==
    [][(op = "ping" /\ op' = "ping" /\ k' = k + 1) => cpc' = "L125"]_vars

\* p is a path of the topology from s to d: not empty, from s to d, no
\* node twice, each two neighbours joined by an entry of connections.
WellFormed(p, s, d) ==
    /\ Len(p) >= 1
    /\ p[1] = s
    /\ p[Len(p)] = d
    /\ \A i \in DOMAIN p : \A j \in DOMAIN p : i # j => p[i] # p[j]
    /\ \A i \in 1..(Len(p) - 1) :
          \E c \in DOMAIN connections :
              \/ connections[c] = <<p[i], p[i + 1]>>
              \/ connections[c] = <<p[i + 1], p[i]>>

\* C15: the path get_ospf_path, ping or traceroute return for known nodes,
\* and the path a ping or a traceroute holds while it runs, is not empty,
\* starts at source, ends at destination, visits no node twice and follows
\* edges of the topology.
C15_PathWellFormed ==
    (source \in Nodes /\ destination \in Nodes
        /\ cpc \in {"ret", "L108", "L125", "L145", "L151"}) =>
        /\ cpc = "ret" => status = "ok"
        /\ WellFormed(path, source, destination)

\* C15's case: after a pass, get_ospf_path from N1 to N3 has returned the
\* five nodes of the route by R4.
C15_Witness ==
    /\ cpc = "ret"
    /\ op = "get_ospf_path"
    /\ source = "N1"
    /\ destination = "N3"
    /\ passes >= 1
    /\ path = <<"N1", "R1", "R4", "R3", "N3">>

\* C16: between passes every key of every one of the 7 edges holds what
\* the last pass stored; a pass begins only on the first run or after a
\* sleep, while the flag is up; within a pass a latency is changed only
\* where this pass has not changed it yet, and to a value between 0.9 and
\* 1.1 times the old one (to the rounding of the product); and the step
\* that ends a pass enters the sleep of line 84.
C16_PassPerturbsEachEdgeOnce ==
    /\ [](Observable =>
            /\ Cardinality({ {e[1], e[2]} : e \in DOMAIN latVer }) = 7
            /\ \A e \in DOMAIN latVer : latVer[e] = passes)
    /\ [][/\ (upc' = "L76" /\ eidx' = 1) =>
               (upc \in {"created", "L84"} /\ running)
          /\ \A e \in DOMAIN latencies :
               (latencies'[e] # latencies[e]) =>
                   /\ latVer[e] = passes
                   /\ latVer'[e] = passes + 1
                   /\ 10 * latencies'[e] + 5 >= 9 * latencies[e]
                   /\ 10 * latencies'[e] - 5 <= 11 * latencies[e]
          /\ (passes' # passes) =>
               (passes' = passes + 1 /\ upc = "L83" /\ upc' = "L84")]_vars

\* C16's case: the updater sleeps after its second pass; the edge between
\* R1 and R2 went from 20 ms by the factors 0.9 and 1.1 to 19.8 ms.
C16_Witness ==
    /\ upc = "L84"
    /\ running
    /\ passes = 2
    /\ latencies[<<"R1", "R2">>] = 19800
    /\ latencies[<<"R2", "R1">>] = 19800
    /\ \A e \in DirEdges : latVer[e] = 2

\* C17: once stop() has been called the updater eventually returns; it
\* enters no sleep after the call; and its next step, from before its first
\* pass or from its sleep, is the return.  (stop() cannot be called during
\* a pass: a pass holds the event loop from line 73 to line 84.)
C17_StopTerminatesUpdater ==
    /\ (~running) ~> (upc = "done")
    /\ [][~running =>
            /\ (upc' = "L84" => upc = "L84")
            /\ (upc' # upc => (upc \in {"created", "L84"} /\ upc' = "done"))]_vars

\* C17's case: stop() was called before the first pass while a traceroute
\* slept, and the updater has returned without a pass.
C17_Witness ==
    /\ ~running
    /\ upc = "done"
    /\ passes = 0
    /\ op = "traceroute"
    /\ cpc = "L151"

\* C18: a ping and a traceroute on known nodes that have begun eventually
\* return, whether or not stop() is ever called and whatever passes run
\* while they sleep.
C18_QueriesReturn ==
    /\ (op = "ping" /\ cpc \in {"L108", "L125"}) ~> (op = "ping" /\ cpc = "ret")
    /\ (op = "traceroute" /\ cpc \in {"L145", "L151"}) ~>
            (op = "traceroute" /\ cpc = "ret")

\* C18's case: the updater was never stopped and ran two passes while a
\* traceroute from R1 to N3 slept; the traceroute has returned, its first
\* hop read before the passes and its third after them.
C18_Witness ==
    /\ running
    /\ passes >= 2
    /\ cpc = "ret"
    /\ op = "traceroute"
    /\ Len(hops) = 4
    /\ hops[1][2] = 20 * Scale
    /\ hops[3][2] > 60 * Scale

\* Both orientations of every entry of connections.
BothOrientations ==
    UNION { {connections[i], <<connections[i][2], connections[i][1]>>} :
            i \in DOMAIN connections }

\* C19: the keys of the latency table and of the cost table are both
\* orientations of every edge of the topology and nothing else, so every
\* edge as graph.edges() yields it (the updater's and get_ospf_path's
\* lookups) and every link of the path a ping or a traceroute holds is a
\* key of the tables.
C19_KeySets ==
    /\ DOMAIN latencies = BothOrientations
    /\ DOMAIN ospf_costs = BothOrientations
    /\ \A i \in DOMAIN GraphEdges :
          /\ GraphEdges[i] \in DOMAIN latencies
          /\ GraphEdges[i] \in DOMAIN ospf_costs
    /\ \A i \in 1..(Len(path) - 1) :
          <<path[i], path[i + 1]>> \in DOMAIN latencies

\* C19's case: after a pass has stored every edge under both keys, a ping
\* from R1 to N3 has looked up the three links of its path.
C19_Witness ==
    /\ upc = "L84"
    /\ passes >= 1
    /\ op = "ping"
    /\ cpc = "L125"
    /\ Len(path) = 4
    /\ rtts[1].present
    /\ Cardinality(DOMAIN latencies) = 14
    /\ Cardinality(DOMAIN ospf_costs) = 14

\* A step in which a query reads a table: a call (its path resolution), a
\* ping echo or a traceroute hop.
QueryReads ==
    \/ cpc = "idle" /\ cpc' # "idle"
    \/ cpc = "L108" /\ k' = k + 1
    \/ cpc = "L145" /\ cpc' = "L151"

\* C20: whenever a query reads a table, every latency and every cost was
\* stored by the same pass, the last one completed (or by construction when
\* none is): no read falls between two edges of a pass.
C20_PassAtomicForQueries ==
    [][QueryReads =>
          /\ \A e \in DOMAIN latVer : latVer[e] = passes
          /\ \A e \in DOMAIN costVer : costVer[e] = passes]_vars

\* C20's case: a traceroute from R1 to N3 read its first hop before any
\* pass, its second after the whole first pass and its third after the
\* whole second pass.
C20_Witness ==
    /\ op = "traceroute"
    /\ cpc = "L151"
    /\ upc = "L84"
    /\ passes = 2
    /\ Len(hops) = 3
    /\ hops[1][2] = 20000
    /\ hops[2][2] \in {18000, 22000}
    /\ hops[3][2] = 60500
    /\ \A e \in DirEdges : latVer[e] = 2 /\ costVer[e] = 2

====
